---- MODULE Spec2Model ----
(***************************************************************************)
(* The three demo components of the starter (Flange, WhiffleBall, Robot)   *)
(* as one state machine: leva sliders debounced with lodash, React state   *)
(* set inside a transition, keyed suspending caches (headless cache /      *)
(* suspend-react), and the requests each cached block sends to the remote  *)
(* ClassCAD engine over one connection.                                    *)
(*                                                                         *)
(* Environment (libraries and engine, not code of the repository):         *)
(*  - the engine executes the requests of the connection in the order they *)
(*    were sent and answers each one; failures are not modelled;           *)
(*  - lodash debounce(f, wait) with default options calls f once, with the *)
(*    last arguments, when wait ms have passed since the last call;        *)
(*  - leva keeps the onChange handler of the first committed render, so    *)
(*    each control has one debounced function; controls exist once the     *)
(*    component has mounted (an onChange that repeats the current value,   *)
(*    as leva sends when it mounts a control, is a Change with that value);*)
(*  - React: a component that suspends before it mounted keeps no hook     *)
(*    state; updates made inside startTransition render together and, if   *)
(*    they suspend, leave the committed view on screen; a synchronous      *)
(*    render that suspends shows the Suspense fallback.                    *)
(* Lengths are in mm, filletRadius in tenths of a mm, time in ms, angles   *)
(* sent to the engine in micro-radians.                                    *)
(***************************************************************************)
EXTENDS Integers, Sequences, FiniteSets, TLC

VARIABLES
  demo,           \* which demo module is running
  mounted,        \* the component has committed at least once
  isFirst,        \* the ref behind useFirstMountState
  value,          \* useState value of every control (committed)
  deferred,       \* useDeferredValue of every control (WhiffleBall)
  upd,            \* setValue updates queued in the transition lane
  isPending,      \* useTransition's pending flag
  lanes,          \* lanes React has work scheduled on
  displayed,      \* what is on screen
  timer,          \* armed debounce timers with their last argument
  elapsed,        \* ms since the last onChange of each control (capped)
  cache,          \* the keyed cache: key -> entry
  queue,          \* requests sent to the engine and not yet answered
  exprs,          \* engine (Flange): the part's expression set
  applied,        \* engine (WhiffleBall): requests executed since the last clear
  zRotationValue, \* engine (Robot): constraint values
  storeAsm,       \* Robot: store.asm
  issued,         \* history: every request sent, in order
  returned,       \* history: the geometries createBufferGeometry answered
  started,        \* history: key -> the render that executed its block
  burstNo,        \* history: number of onChange bursts of each control
  burstLast,      \* history: value of the last onChange of each control
  fired,          \* history: the setValue calls of each control
  nChanges        \* history: number of onChange events

vars == <<demo, mounted, isFirst, value, deferred, upd, isPending, lanes,
          displayed, timer, elapsed, cache, queue, exprs, applied,
          zRotationValue, storeAsm, issued, returned, started, burstNo,
          burstLast, fired, nChanges>>

\* Bounds: the number of onChange events, and the step of the clock in ms.
MaxChanges == 2
TickMs == 50

Demos == {"flange", "whiffle", "robot"}

\* ------------------------------------------------------------ controls

FlangeDelay == 100
WhiffleDelay == 100
RobotDelay == 40

Delay == CASE demo = "flange" -> FlangeDelay
           [] demo = "whiffle" -> WhiffleDelay
           [] OTHER -> RobotDelay

FlangeControls == <<"thickness", "upperCylDiam", "upperCylHoleDiam", "flangeHeight",
                    "baseCylDiam", "holeOffset", "holes", "holeAngle">>

WhiffleControls == <<"outerSize", "wallThickness", "holeDiameter", "filletRadius">>

RobotAxes == <<"Base-J1", "J1-J2", "J2-J3", "J3-J4", "J4-J5", "J5-J6">>

ControlSeq(d) == CASE d = "flange" -> FlangeControls
                   [] d = "whiffle" -> WhiffleControls
                   [] OTHER -> RobotAxes

Range(f) == {f[i] : i \in DOMAIN f}

Controls(d) == Range(ControlSeq(d))

FlangeInitial == [thickness |-> 30, upperCylDiam |-> 190,
                  upperCylHoleDiam |-> "upperCylDiam - thickness",
                  flangeHeight |-> 110,
                  baseCylDiam |-> "upperCylDiam + 4 * thickness",
                  holeOffset |-> "(upperCylDiam / 2) + thickness",
                  holes |-> 4, holeAngle |-> "C:PI * 2 / holes"]

WhiffleInitial == [outerSize |-> 90, wallThickness |-> 5, holeDiameter |-> 55,
                   filletRadius |-> 15]

RobotInitial == [a \in Range(RobotAxes) |-> 0]

InitialState(d) == CASE d = "flange" -> FlangeInitial
                     [] d = "whiffle" -> WhiffleInitial
                     [] OTHER -> RobotInitial

\* The values the user moves a control to; the other controls are left alone.
Choices(s) ==
  CASE s = "thickness" -> {30, 40}
    [] s = "upperCylHoleDiam" -> {"upperCylDiam - thickness", "upperCylDiam - 2 * thickness"}
    [] s = "holes" -> {4, 5}
    [] s = "outerSize" -> {90, 95, 100}
    [] s = "Base-J1" -> {0, 5}
    [] s = "J1-J2" -> {0, 1}
    [] OTHER -> {}

Min(a, b) == IF a < b THEN a ELSE b

\* f with the entries of g put over it
Overlay(f, g) == [s \in DOMAIN f |-> IF s \in DOMAIN g THEN g[s] ELSE f[s]]

Without(f, s) == [t \in DOMAIN f \ {s} |-> f[t]]

\* setValue(v) called outside a transition: an urgent update.
SetValueUrgent(s, v) ==
  /\ value' = [value EXCEPT ![s] = v]
  /\ lanes' = lanes \cup {"sync"}
  /\ fired' = [fired EXCEPT ![s] = Append(@, [burst |-> burstNo'[s], value |-> v,
                                              last |-> burstLast'[s], age |-> elapsed'[s]])]
  /\ UNCHANGED <<upd, isPending>>

\* start(() => setValue(v)): the pending flag is set at once, setValue is
\* queued in the transition lane. The call is logged in fired.
StartSetValue(s, v) ==
  /\ upd' = (s :> v) @@ upd
  /\ isPending' = TRUE
  /\ lanes' = lanes \cup {"sync", "transition"}
  /\ fired' = [fired EXCEPT ![s] = Append(@, [burst |-> burstNo'[s], value |-> v,
                                              last |-> burstLast'[s], age |-> elapsed'[s]])]
  /\ UNCHANGED value

\* onChange without debounce: every event calls start(() => setValue(v)).
OnChangeUndebounced(s, v) ==
  /\ elapsed' = [elapsed EXCEPT ![s] = 0]
  /\ UNCHANGED timer
  /\ StartSetValue(s, v)

\* The debounced function is called by leva: lodash records the argument
\* and the time of the call and arms the timer if none is armed.
OnChange(s, v) ==
  /\ timer' = (s :> v) @@ timer
  /\ elapsed' = [elapsed EXCEPT ![s] = 0]
  /\ UNCHANGED <<value, upd, isPending, lanes, fired>>

\* The user moves control s to v.
Change(s, v) ==
  /\ mounted
  /\ nChanges < MaxChanges
  /\ nChanges' = nChanges + 1
  /\ burstNo' = [burstNo EXCEPT ![s] = IF elapsed[s] >= Delay THEN @ + 1 ELSE @]
  /\ burstLast' = [burstLast EXCEPT ![s] = v]
  /\ OnChange(s, v)
  /\ UNCHANGED <<demo, mounted, isFirst, deferred, displayed, cache, queue, exprs,
                 applied, zRotationValue, storeAsm, issued, returned, started>>

\* Time passes while a debounce timer is counting.
Tick ==
  /\ \E s \in DOMAIN timer : elapsed[s] < Delay
  /\ elapsed' = [s \in DOMAIN elapsed |-> Min(Delay, elapsed[s] + TickMs)]
  /\ UNCHANGED <<demo, mounted, isFirst, value, deferred, upd, isPending, lanes,
                 displayed, timer, cache, queue, exprs, applied, zRotationValue,
                 storeAsm, issued, returned, started, burstNo, burstLast, fired,
                 nChanges>>

\* The debounce timer of s expires wait ms after the last call: the trailing
\* edge invokes v => start(() => setValue(v)) with the last argument.
TimerExpired(s) ==
  /\ s \in DOMAIN timer
  /\ elapsed[s] >= Delay
  /\ timer' = Without(timer, s)
  /\ UNCHANGED <<demo, mounted, isFirst, deferred, displayed, elapsed, cache, queue,
                 exprs, applied, zRotationValue, storeAsm, issued, returned, started,
                 burstNo, burstLast, nChanges>>
  /\ StartSetValue(s, timer[s])

\* ------------------------------------------------------------ requests

\* A request of a block: api.op(arg), awaited or not.
Req(op, arg) == [op |-> op, awaited |-> FALSE, arg |-> arg]

Await(op, arg) == [op |-> op, awaited |-> TRUE, arg |-> arg]

\* const expressions = [{ name, value }, ...] of a render
Expressions(vals) ==
  <<vals["thickness"], vals["upperCylDiam"], vals["upperCylHoleDiam"],
    vals["flangeHeight"], vals["baseCylDiam"], vals["holeOffset"], vals["holes"],
    vals["holeAngle"]>>

\* The id createPart('flange') answers.
FlangePart == "part:flange"

\* The block that creates the flange: only its last request is awaited.
FlangeCreateSteps(vals) ==
  << Req("createPart", <<"flange">>),
     Req("createExpressions", Expressions(vals)),
     Req("createWorkCoordSystem", <<0, 0, 0>>),
     Req("cylinder", <<"ExpressionSet.baseCylDiam", "ExpressionSet.thickness">>),
     Req("cylinder", <<"ExpressionSet.upperCylDiam", "ExpressionSet.flangeHeight">>),
     Req("boolean", <<"UNION">>),
     Req("cylinder", <<"ExpressionSet.upperCylHoleDiam", "ExpressionSet.flangeHeight">>),
     Req("boolean", <<"SUBTRACTION">>),
     Req("createWorkCoordSystem", <<0, vals["upperCylDiam"] \div 2 + vals["thickness"], 0>>),
     Req("cylinder", <<30, 50>>),
     Req("createWorkAxis", <<0, 0, 1>>),
     Req("circularPattern", <<"ExpressionSet.holeAngle", "ExpressionSet.holes">>),
     Await("boolean", <<"SUBTRACTION">>) >>

\* A first-mount flag that is never true.
IsFirstMountNever == FALSE

\* useFirstMountState(): the ref is true until the first commit.
IsFirstMount == isFirst

\* The block that returns the geometry of the flange.
FlangeGeoSteps(part, vals) ==
  (IF ~IsFirstMount THEN <<Req("setExpressions", Expressions(vals))>> ELSE <<>>)
    \o <<Await("createBufferGeometry", <<part>>)>>

\* The requests of the block of suspend() in WhiffleBall, given its fillet
\* request: clear is not awaited, every other request is.
WhiffleBlock(vals, fillet) ==
  LET outerSize == vals["outerSize"]
      innerSize == outerSize - 2 * vals["wallThickness"]
      cylHeight == 2 * outerSize
      holeDiameter == vals["holeDiameter"]
      slice == Await("slice", <<outerSize>>)
  IN << Req("clear", <<>>),
        Await("create", <<"WhiffleBall">>),
        Await("entityInjection", <<>>),
        Await("box", <<outerSize>>),
        Await("box", <<innerSize>>),
        Await("subtraction", <<>>),
        Await("cylinder", <<cylHeight, holeDiameter>>),
        Await("subtraction", <<>>),
        Await("cylinder", <<cylHeight, holeDiameter>>),
        Await("subtraction", <<>>),
        Await("cylinder", <<cylHeight, holeDiameter>>),
        Await("subtraction", <<>>),
        slice, slice, slice, slice, slice, slice, slice, slice,
        Await("getGeometryIds", <<holeDiameter, outerSize>>),
        fillet,
        Await("createBufferGeometry", <<>>) >>

\* The block with a fillet that is not awaited.
WhiffleStepsFilletNotAwaited(vals) ==
  WhiffleBlock(vals, Req("fillet", <<vals["filletRadius"]>>))

\* The block of suspend() in WhiffleBall.
WhiffleSteps(vals) == WhiffleBlock(vals, Await("fillet", <<vals["filletRadius"]>>))

\* Math.PI in micro-radians.
PiMicro == 3141593

\* (value / 180) * Math.PI, in micro-radians
ToRadians(v) == (v * PiMicro) \div 180

\* The block of Robot that loads the assembly and creates the scene.
RobotSteps == << Await("load", <<"Robot6Axis.ofb">>), Await("createScene", <<>>) >>

\* The block of useAxis.
AxisSteps(a, v) ==
  << Await("getRevoluteConstraint", <<a>>),
     Await("update3dConstraintValues", <<a, ToRadians(v)>>) >>

\* The block of Robot that creates the structure-only scene.
StructSteps == << Await("createScene", <<"structureOnly">>) >>

\* ------------------------------------------------------------ cache keys

\* A key of the creating block that depends on a parameter.
PartKeyPerThickness(vals) == <<"flange", vals["thickness"]>>

PartKey(vals) == <<"flange">>

GeoKey(part, vals) == <<"flange", part>> \o Expressions(vals)

WhiffleKey(vals) ==
  <<"whiffle-ball", vals["outerSize"], vals["wallThickness"], vals["holeDiameter"],
    vals["filletRadius"]>>

RobotKey == <<"robot">>

AxisKey(a, v) == <<"robot-axis", a, v>>

StructKey(as) == <<"robot-struct">> \o as

Resolved(k) == k \in DOMAIN cache /\ cache[k].status = "resolved"

\* A call of the cache in a render: the key, the block and what the block
\* returns ("reply": the answer to its last request, else the value fixed).
Call(k, steps, returns, fixed) ==
  [key |-> k, steps |-> steps, returns |-> returns, fixed |-> fixed]

\* The cache calls of one render with the control values vals, in order. A
\* render stops at the first call that suspends.
CacheCalls(vals) ==
  CASE demo = "flange" ->
         LET pk == PartKey(vals)
             part == IF Resolved(pk) THEN cache[pk].value ELSE "unresolved"
         IN << Call(pk, FlangeCreateSteps(vals), "fixed", FlangePart),
               Call(GeoKey(part, vals), FlangeGeoSteps(part, vals), "reply", <<>>) >>
    [] demo = "whiffle" ->
         << Call(WhiffleKey(vals), WhiffleSteps(vals), "reply", <<>>) >>
    [] OTHER ->
         LET ak(i) == AxisKey(RobotAxes[i], vals[RobotAxes[i]])
             a(i) == IF Resolved(ak(i)) THEN cache[ak(i)].value ELSE vals[RobotAxes[i]]
         IN << Call(RobotKey, RobotSteps, "reply", <<>>) >>
            \o [i \in 1..Len(RobotAxes) |->
                  Call(ak(i), AxisSteps(RobotAxes[i], vals[RobotAxes[i]]), "fixed",
                       vals[RobotAxes[i]])]
            \o << Call(StructKey([i \in 1..Len(RobotAxes) |-> a(i)]), StructSteps,
                       "reply", <<>>) >>

\* The first call of a render that is not resolved (0: none).
FirstMiss(calls) ==
  IF \A i \in DOMAIN calls : Resolved(calls[i].key) THEN 0
  ELSE CHOOSE i \in DOMAIN calls :
         /\ ~Resolved(calls[i].key)
         /\ \A j \in 1..(i - 1) : Resolved(calls[j].key)

\* The first awaited request of steps from n on.
FirstAwaited(steps, n) ==
  CHOOSE j \in n..Len(steps) :
    steps[j].awaited /\ \A i \in n..(j - 1) : ~steps[i].awaited

\* The requests a block sends from step n up to its next await.
Batch(k, steps, n) ==
  [i \in 1..(FirstAwaited(steps, n) - n + 1) |-> [key |-> k, step |-> n + i - 1]]

\* cache(fn, keys) on a key: a resolved entry is returned; a pending one
\* suspends; on an absent one the block fn is executed, its entry is stored
\* and the render suspends.
Suspend(call, vals) ==
  IF call.key \in DOMAIN cache
  THEN UNCHANGED <<cache, queue, issued, started>>
  ELSE /\ cache' = (call.key :> [status |-> "pending", steps |-> call.steps,
                                 returns |-> call.returns, fixed |-> call.fixed])
                   @@ cache
       /\ queue' = queue \o Batch(call.key, call.steps, 1)
       /\ issued' = issued \o Batch(call.key, call.steps, 1)
       /\ started' = (call.key :> [pre |-> ~mounted, vals |-> vals]) @@ started

\* ------------------------------------------------------------ rendering

Fallback == [kind |-> "fallback"]

\* <mesh geometry={geo}> (Robot: the nodes posed by the structure)
Mesh(calls) == [kind |-> "mesh", geometry |-> cache[calls[Len(calls)].key].value]

\* A render on the sync lane: the first mount, or an urgent update. It shows
\* the Suspense fallback if it suspends.
RenderSync ==
  /\ "sync" \in lanes
  /\ LET vals == IF demo = "whiffle" THEN deferred ELSE value
         calls == CacheCalls(vals)
         miss == FirstMiss(calls)
     IN IF miss = 0
        THEN /\ mounted' = TRUE
             /\ isFirst' = FALSE
             /\ displayed' = Mesh(calls)
             /\ lanes' = (lanes \ {"sync"}) \cup
                   (IF demo = "whiffle" /\ value # deferred THEN {"transition"} ELSE {})
             /\ UNCHANGED <<cache, queue, issued, started>>
        ELSE /\ displayed' = Fallback
             /\ lanes' = lanes \ {"sync"}
             /\ Suspend(calls[miss], vals)
             /\ UNCHANGED <<mounted, isFirst>>
  /\ UNCHANGED <<demo, value, deferred, upd, isPending, timer, elapsed, exprs, applied,
                 zRotationValue, storeAsm, returned, burstNo, burstLast, fired,
                 nChanges>>

\* A render on the transition lane with the queued setValue updates: it
\* commits when nothing suspends and leaves the screen as it is otherwise.
RenderTransition ==
  /\ mounted
  /\ "transition" \in lanes
  /\ "sync" \notin lanes
  /\ LET vals == Overlay(value, upd)
         calls == CacheCalls(vals)
         miss == FirstMiss(calls)
     IN IF miss = 0
        THEN /\ value' = vals
             /\ deferred' = IF demo = "whiffle" THEN vals ELSE deferred
             /\ upd' = <<>>
             /\ isPending' = FALSE
             /\ displayed' = Mesh(calls)
             /\ UNCHANGED <<cache, queue, issued, started>>
        ELSE /\ Suspend(calls[miss], vals)
             /\ UNCHANGED <<value, deferred, upd, isPending, displayed>>
  /\ lanes' = lanes \ {"transition"}
  /\ UNCHANGED <<demo, mounted, isFirst, timer, elapsed, exprs, applied,
                 zRotationValue, storeAsm, returned, burstNo, burstLast, fired,
                 nChanges>>

\* ------------------------------------------------------------ engine

\* The requests of WhiffleBall that build the part.
WhiffleModeling == {"create", "box", "cylinder", "subtraction", "slice", "fillet"}

\* The lanes a resolved promise wakes up.
Woken ==
  (IF displayed.kind = "fallback" THEN {"sync"} ELSE {}) \cup
  (IF mounted /\ (DOMAIN upd # {} \/ (demo = "whiffle" /\ value # deferred))
   THEN {"transition"} ELSE {})

\* The engine executes the oldest request and its answer arrives: an awaited
\* request lets its block go on to its next await, or return.
EngineReply ==
  /\ queue # <<>>
  /\ LET r == Head(queue)
         e == cache[r.key]
         st == e.steps[r.step]
         reply == CASE st.op = "createBufferGeometry" /\ demo = "flange" -> [of |-> exprs]
                    [] st.op = "createBufferGeometry" /\ demo = "whiffle" ->
                         [of |-> SelectSeq(applied, LAMBDA x : x.key = r.key)]
                    [] st.op = "createScene" -> [pose |-> zRotationValue]
                    [] OTHER -> <<>>
     IN /\ exprs' = IF st.op \in {"createExpressions", "setExpressions"}
                    THEN st.arg ELSE exprs
        /\ applied' = IF st.op = "clear" THEN <<>>
                      ELSE IF demo = "whiffle" /\ st.op \in WhiffleModeling
                           THEN Append(applied, r) ELSE applied
        /\ zRotationValue' = IF st.op = "update3dConstraintValues"
                             THEN (st.arg[1] :> st.arg[2]) @@ zRotationValue
                             ELSE zRotationValue
        /\ storeAsm' = IF st.op = "load" THEN "asm" ELSE storeAsm
        /\ returned' = IF st.op = "createBufferGeometry"
                       THEN returned \cup {reply} ELSE returned
        /\ \E found \in (IF st.op = "getGeometryIds" THEN BOOLEAN ELSE {TRUE}) :
             LET n == IF found THEN r.step + 1 ELSE r.step + 2
             IN IF ~st.awaited
                THEN /\ queue' = Tail(queue)
                     /\ UNCHANGED <<cache, issued, lanes>>
                ELSE IF n > Len(e.steps)
                THEN /\ queue' = Tail(queue)
                     /\ cache' = [cache EXCEPT ![r.key] =
                                    [status |-> "resolved", steps |-> e.steps,
                                     returns |-> e.returns, fixed |-> e.fixed,
                                     value |-> IF e.returns = "reply" THEN reply
                                               ELSE e.fixed]]
                     /\ lanes' = lanes \cup Woken
                     /\ UNCHANGED issued
                ELSE /\ queue' = Tail(queue) \o Batch(r.key, e.steps, n)
                     /\ issued' = issued \o Batch(r.key, e.steps, n)
                     /\ UNCHANGED <<cache, lanes>>
  /\ UNCHANGED <<demo, mounted, isFirst, value, deferred, upd, isPending, displayed,
                 timer, elapsed, started, burstNo, burstLast, fired, nChanges>>

\* ------------------------------------------------------------ specification

Init ==
  /\ demo \in Demos
  /\ mounted = FALSE
  /\ isFirst = TRUE
  /\ value = InitialState(demo)
  /\ deferred = InitialState(demo)
  /\ upd = <<>>
  /\ isPending = FALSE
  /\ lanes = {"sync"}
  /\ displayed = Fallback
  /\ timer = <<>>
  /\ elapsed = [s \in Controls(demo) |-> Delay]
  /\ cache = <<>>
  /\ queue = <<>>
  /\ exprs = <<>>
  /\ applied = <<>>
  /\ zRotationValue = <<>>
  /\ storeAsm = "null"
  /\ issued = <<>>
  /\ returned = {}
  /\ started = <<>>
  /\ burstNo = [s \in Controls(demo) |-> 0]
  /\ burstLast = InitialState(demo)
  /\ fired = [s \in Controls(demo) |-> <<>>]
  /\ nChanges = 0

Next ==
  \/ \E s \in Controls(demo) : \E v \in Choices(s) : Change(s, v)
  \/ Tick
  \/ \E s \in Controls(demo) : TimerExpired(s)
  \/ RenderSync
  \/ RenderTransition
  \/ EngineReply

Spec == Init /\ [][Next]_vars

\* ------------------------------------------------------------ properties

\* The request of an entry of issued or queue.
Step(r) == cache[r.key].steps[r.step]

\* Request n of the block of key k has been sent / is still unanswered.
Sent(k, n) == \E i \in DOMAIN issued : issued[i].key = k /\ issued[i].step = n

InFlight(k, n) == \E i \in DOMAIN queue : queue[i].key = k /\ queue[i].step = n

\* The requests sent that ask for a buffer geometry.
GeometryRequests == {i \in DOMAIN issued : Step(issued[i]).op = "createBufferGeometry"}

\* Nothing is left to do.
Idle == queue = <<>> /\ lanes = {} /\ DOMAIN timer = {} /\ DOMAIN upd = {}

\* The setValue calls made so far.
Calls == LET n[i \in 0..Len(ControlSeq(demo))] ==
               IF i = 0 THEN 0 ELSE n[i - 1] + Len(fired[ControlSeq(demo)[i]])
         IN n[Len(ControlSeq(demo))]

\* C1: the cache is memoized by key tuple. No request of a block is sent
\* twice, so the block of a key is executed at most once and a later call
\* with an equal key sends nothing; every block that was executed keeps its
\* entry, and the entry of a block that returned stays resolved (nothing is
\* evicted); the block that creates the flange is executed exactly once,
\* whatever the parameters are changed to.
C1_Memoized ==
  /\ Cardinality(Range(issued)) = Len(issued)
  /\ \A r \in Range(issued) : r.key \in DOMAIN started
  /\ \A k \in DOMAIN started :
       /\ k \in DOMAIN cache
       /\ (Sent(k, Len(cache[k].steps)) /\ ~InFlight(k, Len(cache[k].steps)))
            => cache[k].status = "resolved"
  /\ demo = "flange" =>
       LET created == {i \in DOMAIN issued : Step(issued[i]).op = "createPart"}
       IN Cardinality(created) <= 1 /\ (mounted => Cardinality(created) = 1)

\* C1 witness: the flange was changed and changed back; the second render
\* with the first key tuple found the cached geometry.
C1_Witness ==
  /\ demo = "flange" /\ Idle
  /\ Len(fired["thickness"]) = 2
  /\ value = FlangeInitial
  /\ Cardinality(DOMAIN cache) = 3
  /\ displayed.kind = "mesh"

\* C2: in Robot, once all pending work has finished, the engine's
\* zRotationValue of the constraint of every axis is the axis' slider value
\* in radians.
C2_ConstraintFollowsSlider ==
  (demo = "robot" /\ mounted /\ Idle) =>
    \A a \in Controls("robot") :
      a \in DOMAIN zRotationValue /\ zRotationValue[a] = ToRadians(value[a])

\* C3: slider changes are debounced. Of one burst of onChange events of a
\* control (consecutive events less than the delay apart) setValue is called
\* at most once, not before the delay (100 ms in Flange and WhiffleBall,
\* 40 ms in Robot) has passed since the last event of the burst, and with
\* the value of that event; so the blocks executed are
\* at most those of the first render plus one round (one block, in Robot an
\* axis block and a structure block) per setValue call.
C3_Debounced ==
  /\ \A s \in DOMAIN fired :
       /\ \A i, j \in DOMAIN fired[s] : fired[s][i].burst = fired[s][j].burst => i = j
       /\ \A i \in DOMAIN fired[s] :
            /\ fired[s][i].age >= (IF demo = "robot" THEN 40 ELSE 100)
            /\ fired[s][i].value = fired[s][i].last
  /\ Cardinality(DOMAIN cache) <=
       CASE demo = "flange" -> 2 + Calls
         [] demo = "whiffle" -> 1 + Calls
         [] OTHER -> 8 + 2 * Calls

\* C3 witness: a burst of two or more events of one control, answered by one
\* setValue call with the value of the last event.
C3_Witness ==
  \E s \in DOMAIN fired :
    /\ nChanges >= 2
    /\ burstNo[s] = 1 /\ \A t \in DOMAIN fired \ {s} : burstNo[t] = 0
    /\ Len(fired[s]) = 1 /\ fired[s][1].value = burstLast[s]
    /\ DOMAIN timer = {}

\* The geometry of the committed values is on screen.
CommittedShown ==
  LET calls == CacheCalls(IF demo = "whiffle" THEN deferred ELSE value)
  IN FirstMiss(calls) = 0 /\ displayed = Mesh(calls)

\* C4 as claimed: a parameter change is a pending transition. From the
\* moment a value is set until the result for its key tuple has arrived the
\* previous geometry stays on screen and the pending flag is true; the
\* Suspense fallback is never shown again once the component has mounted;
\* the pending flag is false when no set value waits to be displayed.
C4_PendingUntilResult ==
  /\ mounted => displayed.kind = "mesh"
  /\ (mounted /\ \E k \in DOMAIN cache : cache[k].status = "pending") =>
       isPending /\ CommittedShown
  /\ DOMAIN upd = {} => ~isPending

\* C4 amended: from the moment a value is set until the values set last are
\* displayed (a value superseded by a later one is no longer waited for)
\* the previous geometry stays on screen and the pending flag is true; the
\* Suspense fallback is never shown again once the component has mounted;
\* the pending flag is false when no set value waits to be displayed.
C4_PendingTransition ==
  /\ mounted => displayed.kind = "mesh" /\ CommittedShown
  /\ isPending <=> DOMAIN upd # {}
  /\ demo = "whiffle" => deferred = value

\* C4 witness: a transition has suspended on a new key tuple; the old
\* geometry is on screen and the pending flag is set.
C4_Witness ==
  /\ demo = "flange" /\ mounted /\ isPending
  /\ lanes = {}
  /\ \E k \in DOMAIN cache : cache[k].status = "pending"
  /\ displayed.kind = "mesh"

\* Request r belongs to the run of the geometry request g, and is not g:
\* it is a request of g's block or, in Flange, of the block that created the
\* part.
InRun(r, g) ==
  /\ r # g
  /\ r.key = g.key \/ (demo = "flange" /\ r.key = PartKey(value))

\* Every modeling request the block of issued[i] makes has been sent before
\* it (the fillet of WhiffleBall is made only if there are edges to fillet).
AllSentBefore(i) ==
  LET g == issued[i]
      SentBefore(k) == {issued[j].step : j \in {j \in 1..(i - 1) : issued[j].key = k}}
      own == SentBefore(g.key)
  IN /\ \A n \in 1..(g.step - 1) : n \in own \/ cache[g.key].steps[n].op = "fillet"
     /\ demo = "flange" => DOMAIN cache[PartKey(value)].steps \subseteq SentBefore(PartKey(value))
     /\ \A j \in (i + 1)..Len(issued) : ~InRun(issued[j], g)

GeoBlocks == {k \in DOMAIN started : cache[k].returns = "reply"}

\* The setExpressions requests sent by the block of key k.
SetExpressions(k) ==
  {i \in DOMAIN issued : issued[i].key = k /\ Step(issued[i]).op = "setExpressions"}

\* C6: in Flange the geometry block executed for the first mount sends no
\* setExpressions; every later execution sends setExpressions once, with
\* the eight expression values of its render, before it requests the buffer
\* geometry.
C6_ExpressionsAfterFirstMount ==
  demo = "flange" =>
    \A k \in GeoBlocks :
      IF started[k].pre
      THEN SetExpressions(k) = {}
      ELSE /\ Cardinality(SetExpressions(k)) = 1
           /\ \A i \in SetExpressions(k) :
                /\ Step(issued[i]).arg = Expressions(started[k].vals)
                /\ \E j \in GeometryRequests : issued[j].key = k /\ i < j

\* C6 witness: a geometry block executed after the first mount has returned.
C6_Witness ==
  /\ demo = "flange"
  /\ \E k \in GeoBlocks : ~started[k].pre /\ Resolved(k) /\ SetExpressions(k) # {}
  /\ \E k \in GeoBlocks : started[k].pre /\ Resolved(k)

\* The runs of WhiffleBall the engine is in the middle of: it has executed
\* their clear and not yet their last request.
RunsInProgress ==
  {k \in DOMAIN cache : cache[k].status = "pending" /\ ~InFlight(k, 1)}

\* The requests of the run of key k that build its part, in order.
OwnSequence(k) ==
  SelectSeq(issued, LAMBDA r : r.key = k /\ Step(r).op \in WhiffleModeling)

\* C7: WhiffleBall runs do not interfere. No request of another run takes
\* effect between two requests of a run, and the geometry cached under a key
\* tuple is the tessellation of the part built by exactly the requests of
\* that tuple's own run.
C7_RunsDoNotInterfere ==
  demo = "whiffle" =>
    /\ Cardinality(RunsInProgress) <= 1
    /\ \A k \in DOMAIN cache : Resolved(k) => cache[k].value.of = OwnSequence(k)

====
